---- MODULE Spec2Model ----
(***************************************************************************)
(* The hand-rolled middleware chain of apps/next-and-next-handle, in its   *)
(* two implementations:                                                    *)
(*   "Middleware"      examples/req-reference-trace.ts (class Middleware)  *)
(*   "MiddlewareClass" the chain with wrrapedNext (class MiddlewareClass)  *)
(* A chain instance holds the registered handlers and one position index.  *)
(* Handlers are caller code: what an activation does (mutate req, call its *)
(* continuation with some argument, throw some value, return) is chosen    *)
(* nondeterministically, one operation per step, on an explicit call stack.*)
(* Everything is synchronous: a frame on the stack is a handler that has   *)
(* been called by next() and has not returned yet.                         *)
(***************************************************************************)
EXTENDS Integers, Sequences, FiniteSets, TLC

\* ------------------------------------------------------------------ bounds
MaxHandlers == 2      \* longest chain built with use()
MaxOps      == 4      \* operations (writes, continuation calls, throws, timers) of the handlers in one run
MaxRuns     == 2      \* excute calls on one chain instance

\* ------------------------------------------------------------- value sets
Impls    == {"Middleware", "MiddlewareClass"}
Handlers == 1..MaxHandlers                  \* the caller's handler functions, named by number
\* JavaScript values a handler may pass to next(...) or throw.  "undefined" is
\* also what a parameter holds when the argument is omitted.
Values   == {"undefined", "null", "boom"}
Falsy    == {"undefined", "null"}
\* A test written `if (err !== undefined)`.
TruthyDefined(v) == v # "undefined"
\* A test written `if (err !== null)`.
TruthyNotNull(v) == v # "null"
Truthy(v) == v \notin Falsy                 \* the test of `if (err)`

\* The objects a caller passes to excute: run r brings its own req and res.
ReqOf(r) == [k |-> "req", run |-> r]
ResOf(r) == [k |-> "res", run |-> r]

VARIABLES
  impl,          \* which of the two classes this instance is
  middlewares,   \* this.middlewares: sequence of registered handlers
  currentIndex,  \* this.currentIndex / this.currentMiddlewareIndex
  stack,         \* handler activations that have not returned, innermost last
  heap,          \* content of the live req/res objects: the marks written on each
  trace,         \* what happened since the last excute call, in order
  runs,          \* number of excute calls made so far
  pending,       \* continuations handlers have put in a timer callback, not fired yet
  eq,            \* the two classes run side by side on one chain of scripted handlers
  rx,            \* one subscription to the observable an interceptor returned
  cache          \* one caching interceptor: its class, its Map and the observables it made

vars == <<impl, middlewares, currentIndex, stack, heap, trace, runs, pending, eq, rx, cache>>

\* What is read through a reference; an object nobody wrote on yet is empty.
Content(o) == IF o \in DOMAIN heap THEN heap[o] ELSE {}

\* One entry of the trace.  pos is the handler's position in the chain (-1 for
\* the terminal and the error handler), h the registered handler (0 for none),
\* n the length of the chain, seen the content of req when the entry is made.
Event(kind, pos, val, req, res) ==
  [kind |-> kind, pos |-> pos, val |-> val, req |-> req, res |-> res,
   h |-> IF kind = "mw" THEN middlewares[pos + 1] ELSE 0,
   n |-> Len(middlewares),
   seen |-> Content(req)]

Frame(pos, req, res) == [pos |-> pos, req |-> req, res |-> res]

\* errorHandler(err, req, res) and routeHandler(req, res) only log: the model
\* records the invocation with its arguments.
errorHandler(tr, err, req, res) == Append(tr, Event("error", -1, err, req, res))
routeHandler(tr, req, res)      == Append(tr, Event("route", -1, "undefined", req, res))

\* A next() that skips a handler: this.currentIndex += 2.
IncIndexTwice(i) == i + 2
\* A next() that forgets to advance the index.
IncIndexStuck(i) == i
\* this.currentIndex++
IncIndex(i) == i + 1

\* next(req, res, err) called when the stack is stk, the trace tr and the
\* index idx.  The handler it calls becomes the innermost activation.
next(req, res, err, stk, tr, idx) ==
  IF Truthy(err)
    THEN /\ trace' = errorHandler(tr, err, req, res)
         /\ stack' = stk
         /\ currentIndex' = idx
    ELSE IF idx >= Len(middlewares)
      THEN /\ trace' = routeHandler(tr, req, res)
           /\ stack' = stk
           /\ currentIndex' = idx
      ELSE /\ trace' = Append(tr, Event("mw", idx, "undefined", req, res))
           /\ stack' = Append(stk, Frame(idx, req, res))
           /\ currentIndex' = IncIndex(idx)

\* The continuation handed to a handler, as the arguments it gives this.next.
\* Middleware:      const nextFunction = (err?) => { this.next(req, res, err) }
\* MiddlewareClass: const wrrapedNext  = ()     => { this.next(req, res) }
\* Two slips in the closure: this.next(req, req, err) and this.next(res, req, err).
nextFunctionSameObj(req, res, err) == [req |-> req, res |-> req, err |-> err]
nextFunctionSwapped(req, res, err) == [req |-> res, res |-> req, err |-> err]
nextFunction(req, res, err) == [req |-> req, res |-> res, err |-> err]
wrrapedNext(req, res, err)  == [req |-> req, res |-> res, err |-> "undefined"]


\* The variants that hand this.next.bind(this) to the handler: what the handler
\* passes goes straight into next's parameters, so next(a) is this.next(a)
\* with res and err undefined, and next() is this.next() with all three
\* undefined.  A value standing where a req or res object is expected:
AsContext(v) == [k |-> v, run |-> 0]
\* A continuation that captured the handler's req and res after all.
boundNextCaptures(req, res, err) == [req |-> req, res |-> res, err |-> "undefined"]
boundNext(req, res, err) ==
  [req |-> AsContext(err), res |-> AsContext("undefined"), err |-> "undefined"]

Continuation(req, res, err) ==
  IF impl = "Middleware" THEN nextFunction(req, res, err)
  ELSE IF impl = "MiddlewareClass" THEN wrrapedNext(req, res, err)
  ELSE boundNext(req, res, err)

Top == stack[Len(stack)]
\* Operations the handlers and their timer callbacks have performed since the
\* last excute call.
OpKinds == {"mut", "call", "throw", "defer", "fire", "read"}
OpsDone == Cardinality({i \in DOMAIN trace : trace[i].kind \in OpKinds})
Pop(s) == SubSeq(s, 1, Len(s) - 1)

Init ==
  /\ impl \in Impls
  /\ middlewares = <<>>
  /\ currentIndex = 0
  /\ stack = <<>>
  /\ heap = [o \in {} |-> {}]
  /\ trace = <<>>
  /\ runs = 0
  /\ pending = {}
  /\ eq = [phase |-> "idle"]
  /\ rx = [phase |-> "idle"]
  /\ cache = [cls |-> "idle"]

\* A use that puts the handler in front: this.middlewares.unshift(middleware).
usePrepend(h) ==
  /\ stack = <<>>
  /\ Len(middlewares) < MaxHandlers
  /\ h = Len(middlewares) + 1
  /\ middlewares' = <<h>> \o middlewares
  /\ UNCHANGED <<impl, currentIndex, stack, heap, trace, runs, pending, eq, rx, cache>>

\* use(middleware): this.middlewares.push(middleware).  The caller registers
\* its handlers one after the other, each of them once.
use(h) ==
  /\ stack = <<>>
  /\ Len(middlewares) < MaxHandlers
  /\ h = Len(middlewares) + 1
  /\ middlewares' = Append(middlewares, h)
  /\ UNCHANGED <<impl, currentIndex, stack, heap, trace, runs, pending, eq, rx, cache>>

\* The index excute starts from: Middleware (and the bind variants) set
\* this.currentIndex = 0, MiddlewareClass leaves currentMiddlewareIndex as the last run left it.
ExcuteStart == IF impl = "MiddlewareClass" THEN currentIndex ELSE 0

\* excute(req, res) with the fresh, empty objects of a new run.  The objects
\* of the earlier runs are garbage by then unless a pending callback still
\* holds them, so the heap keeps those and the objects of the current run.
Held == {c.req : c \in pending} \cup {c.res : c \in pending}
excute ==
  /\ stack = <<>>
  /\ runs < MaxRuns
  /\ runs' = runs + 1
  /\ next(ReqOf(runs + 1), ResOf(runs + 1), "undefined", <<>>, <<>>, ExcuteStart)
  /\ heap' = [o \in {ReqOf(runs + 1), ResOf(runs + 1)} \cup Held |-> Content(o)]
  /\ UNCHANGED <<impl, middlewares, pending, eq, rx, cache>>

\* The running handler writes on its req (req.user = ...).
Mark(pos) == [run |-> runs, pos |-> pos]
HandlerMutates ==
  /\ stack # <<>>
  /\ OpsDone < MaxOps
  /\ Top.req \in DOMAIN heap
  /\ Mark(Top.pos) \notin heap[Top.req]
  /\ heap' = [heap EXCEPT ![Top.req] = @ \cup {Mark(Top.pos)}]
  /\ trace' = Append(trace, Event("mut", Top.pos, "undefined", Top.req, Top.res))
  /\ UNCHANGED <<impl, middlewares, currentIndex, stack, runs, pending, eq, rx, cache>>

\* The running handler calls the continuation it was given: next(a).
HandlerCallsNext(a) ==
  /\ stack # <<>>
  /\ OpsDone < MaxOps
  /\ LET f    == Top
         args == Continuation(f.req, f.res, a)
     IN next(args.req, args.res, args.err, stack,
             Append(trace, Event("call", f.pos, a, f.req, f.res)), currentIndex)
  /\ UNCHANGED <<impl, middlewares, heap, runs, pending, eq, rx, cache>>

\* A catch that handles the error and throws it on:
\* catch (error) { this.next(req, res, error); throw error }.  Every next()
\* still on the stack catches it in turn, so every activation is unwound.
HandlerThrowsRethrows(v) ==
  /\ stack # <<>>
  /\ OpsDone < MaxOps
  /\ trace' = Append(trace, Event("throw", Top.pos, v, Top.req, Top.res)) \o
                [j \in 1..Len(stack) |->
                   Event("error", -1, v, stack[Len(stack) + 1 - j].req, stack[Len(stack) + 1 - j].res)]
  /\ stack' = <<>>
  /\ UNCHANGED <<impl, middlewares, currentIndex, heap, runs, pending, eq, rx, cache>>

\* A catch that runs the handler again: this.currentIndex--; this.next(req, res).
HandlerThrowsRetry(v) ==
  /\ stack # <<>>
  /\ OpsDone < MaxOps
  /\ LET f == Top
     IN next(f.req, f.res, "undefined", Pop(stack),
             Append(trace, Event("throw", f.pos, v, f.req, f.res)), f.pos)
  /\ UNCHANGED <<impl, middlewares, heap, runs, pending, eq, rx, cache>>

\* The running handler throws v: the catch of the next() that called it runs
\* this.next(req, res, error).
HandlerThrows(v) ==
  /\ stack # <<>>
  /\ OpsDone < MaxOps
  /\ LET f == Top
     IN next(f.req, f.res, v, Pop(stack),
             Append(trace, Event("throw", f.pos, v, f.req, f.res)), currentIndex)
  /\ UNCHANGED <<impl, middlewares, heap, runs, pending, eq, rx, cache>>

\* A next() that goes on with the chain when the handler it called returns.
HandlerReturnsAdvances ==
  /\ stack # <<>>
  /\ LET f == Top
     IN next(f.req, f.res, "undefined", Pop(stack),
             Append(trace, Event("return", f.pos, "undefined", f.req, f.res)), currentIndex)
  /\ UNCHANGED <<impl, middlewares, heap, runs, pending, eq, rx, cache>>

\* The running handler returns: control is back in the next() that called it,
\* after its try block, where nothing is left to do.
HandlerReturns ==
  /\ stack # <<>>
  /\ stack' = Pop(stack)
  /\ trace' = Append(trace, Event("return", Top.pos, "undefined", Top.req, Top.res))
  /\ UNCHANGED <<impl, middlewares, currentIndex, heap, runs, pending, eq, rx, cache>>

Next ==
  \/ \E h \in Handlers : use(h)
  \/ excute
  \/ HandlerMutates
  \/ \E a \in Values : HandlerCallsNext(a)
  \/ \E v \in Values : HandlerThrows(v)
  \/ HandlerReturns

Spec == Init /\ [][Next]_vars

\* JavaScript runs a call to completion: while a handler is on the stack, it
\* goes on (and, being finite code, ends up returning or throwing).
HandlerStep ==
  \/ HandlerMutates
  \/ \E a \in Values : HandlerCallsNext(a)
  \/ \E v \in Values : HandlerThrows(v)
  \/ HandlerReturns
SpecFair == Spec /\ WF_vars(HandlerStep)

\* ---------------------------------------------------- deferred callbacks
\* The running handler hands its continuation to a timer:
\* setTimeout(() => next(a)).  The callback holds the closure, that is the
\* req and res it captured; pos is the position of the handler it was given to.
HandlerDefers(a) ==
  /\ stack # <<>>
  /\ OpsDone < MaxOps
  /\ pending' = pending \cup {[pos |-> Top.pos, req |-> Top.req, res |-> Top.res, val |-> a]}
  /\ trace' = Append(trace, Event("defer", Top.pos, a, Top.req, Top.res))
  /\ UNCHANGED <<impl, middlewares, currentIndex, stack, heap, runs, eq, rx, cache>>

\* The event loop runs a pending callback, when no call is on the stack: the
\* continuation is called from the top level.
FireDeferred ==
  /\ stack = <<>>
  /\ OpsDone < MaxOps
  /\ \E c \in pending :
       /\ pending' = pending \ {c}
       /\ LET args == Continuation(c.req, c.res, c.val)
          IN next(args.req, args.res, args.err, <<>>,
                  Append(trace, Event("fire", c.pos, c.val, c.req, c.res)), currentIndex)
  /\ UNCHANGED <<impl, middlewares, heap, runs, eq, rx, cache>>

NextDefer ==
  \/ Next
  \/ \E a \in Values : HandlerDefers(a)
  \/ FireDeferred

SpecDefer == Init /\ [][NextDefer]_vars

\* ------------------------------------------------- this.next.bind(this)
\* "MiddlewareBind" is class Middleware with currentMiddleware(req, res,
\* this.next.bind(this)); "ProofMiddleware" is nextWithBind / executeWithBind,
\* which has no error parameter and whose only try/catch is in executeWithBind.
BindImpls == {"MiddlewareBind", "ProofMiddleware"}

InitBind ==
  /\ impl \in BindImpls
  /\ middlewares = <<>>
  /\ currentIndex = 0
  /\ stack = <<>>
  /\ heap = [o \in {} |-> {}]
  /\ trace = <<>>
  /\ runs = 0
  /\ pending = {}
  /\ eq = [phase |-> "idle"]
  /\ rx = [phase |-> "idle"]
  /\ cache = [cls |-> "idle"]

\* Reading a property of undefined or null (req.user) throws a TypeError.
ReadThrows(o) == o.k \in {"undefined", "null"}

\* The running handler throws v in ProofMiddleware: no nextWithBind catches,
\* every activation is unwound and the catch of executeWithBind logs it.
Uncaught(v, tr) ==
  /\ trace' = Append(tr, Event("caught", -1, v, Top.req, Top.res))
  /\ stack' = <<>>
  /\ currentIndex' = currentIndex

\* The throw of the running handler, by variant, after the trace tr.
Raise(v, tr) ==
  IF impl = "ProofMiddleware"
    THEN Uncaught(v, tr)
    ELSE next(Top.req, Top.res, v, Pop(stack), tr, currentIndex)

HandlerThrowsUncaught(v) ==
  /\ impl = "ProofMiddleware"
  /\ stack # <<>>
  /\ OpsDone < MaxOps
  /\ Uncaught(v, Append(trace, Event("throw", Top.pos, v, Top.req, Top.res)))
  /\ UNCHANGED <<impl, middlewares, heap, runs, pending, eq, rx, cache>>

\* The running handler reads its context (console.log(req.user)): on an
\* object it goes on, on undefined or null the read throws a TypeError.
HandlerReadsContext ==
  /\ stack # <<>>
  /\ OpsDone < MaxOps
  /\ LET rd == Append(trace, Event("read", Top.pos, "undefined", Top.req, Top.res))
     IN IF ReadThrows(Top.req)
          THEN Raise("TypeError", Append(rd, Event("throw", Top.pos, "TypeError", Top.req, Top.res)))
          ELSE trace' = rd /\ UNCHANGED <<stack, currentIndex>>
  /\ UNCHANGED <<impl, middlewares, heap, runs, pending, eq, rx, cache>>

NextBind ==
  \/ \E h \in Handlers : use(h)
  \/ excute
  \/ HandlerMutates
  \/ HandlerReadsContext
  \/ \E a \in Values : HandlerCallsNext(a)
  \/ \E v \in Values : impl = "MiddlewareBind" /\ HandlerThrows(v)
  \/ \E v \in Values : HandlerThrowsUncaught(v)
  \/ HandlerReturns

SpecBind == InitBind /\ [][NextBind]_vars

\* ------------------------------------------- the two classes side by side
\* A scripted handler is the list of what it does to the chain, in order:
\* call its continuation with a value, or throw a value (which ends it); at
\* the end of the list it returns.
MaxScript == 2        \* operations in one scripted handler
ScriptOps == [op : {"call", "throw"}, val : Values]
Scripts   == UNION {[1..k -> ScriptOps] : k \in 0..MaxScript}
Chains    == UNION {[1..k -> Scripts] : k \in 0..MaxHandlers}

\* One entry of what a run invoked: handler at pos, terminal or error handler.
Inv(kind, pos, val) == [kind |-> kind, pos |-> pos, val |-> val]

\* The error argument this.next receives from the continuation of class im.
ContinuationErr(im, a) ==
  IF im = "Middleware"
    THEN nextFunction(ReqOf(1), ResOf(1), a).err
    ELSE wrrapedNext(ReqOf(1), ResOf(1), a).err

\* next(req, res, err) of class im on the scripted chain, as a function of the
\* state st = [idx, out] (the index and what has been invoked so far), and
\* the handler at position p going on from its k-th operation.
RECURSIVE ChainNext(_, _, _, _), RunHandler(_, _, _, _, _)
ChainNext(im, chain, st, err) ==
  IF Truthy(err)
    THEN [st EXCEPT !.out = Append(@, Inv("error", -1, err))]
    ELSE IF st.idx >= Len(chain)
      THEN [st EXCEPT !.out = Append(@, Inv("route", -1, "undefined"))]
      ELSE RunHandler(im, chain,
                      [idx |-> IncIndex(st.idx),
                       out |-> Append(st.out, Inv("mw", st.idx, "undefined"))],
                      st.idx, 1)
RunHandler(im, chain, st, p, k) ==
  IF k > Len(chain[p + 1])
    THEN st
    ELSE LET o == chain[p + 1][k]
         IN IF o.op = "throw"
              THEN ChainNext(im, chain, st, o.val)
              ELSE RunHandler(im, chain,
                              ChainNext(im, chain, st, ContinuationErr(im, o.val)),
                              p, k + 1)

\* excute(req, res) on a fresh instance of class im: what it invokes, in order.
FreshRun(im, chain) == ChainNext(im, chain, [idx |-> 0, out |-> <<>>], "undefined").out

InitEquiv ==
  /\ impl = "Middleware"
  /\ middlewares = <<>>
  /\ currentIndex = 0
  /\ stack = <<>>
  /\ heap = [o \in {} |-> {}]
  /\ trace = <<>>
  /\ runs = 0
  /\ pending = {}
  /\ rx = [phase |-> "idle"]
  /\ cache = [cls |-> "idle"]
  /\ \E c \in Chains : eq = [phase |-> "new", chain |-> c]

\* Both classes run the chain once, each from a fresh instance.
RunBoth ==
  /\ eq.phase = "new"
  /\ eq' = [phase |-> "done", chain |-> eq.chain,
            outM |-> FreshRun("Middleware", eq.chain),
            outC |-> FreshRun("MiddlewareClass", eq.chain)]
  /\ UNCHANGED <<impl, middlewares, currentIndex, stack, heap, trace, runs, pending, rx, cache>>

NextEquiv == RunBoth

SpecEquiv == InitEquiv /\ [][NextEquiv]_vars

\* ------------------------------------------------- LoggingInterceptor
\* intercept(context, next) returns
\*   next.handle().pipe(tap({next: log data, error: log err.message}),
\*                      catchError(err => { log err.message; return throwError(() => err) }))
\* The route handler's observable sends notifications; each goes through the
\* two operators to the subscriber.
MaxEmits == 3         \* values the route handler's observable emits
\* What the route handler may emit.  "circular" stands for the values
\* JSON.stringify throws a TypeError on (a circular object, a BigInt); of
\* undefined it returns undefined and does not throw.
DataValues == {"object", "text", "undefined", "circular"}
\* What the route handler may fail with.  Reading .message of null or
\* undefined throws a TypeError; of an Error or a string it does not.
ErrValues  == {"Error", "string", "null"}
StringifyThrows(v) == v = "circular"
MessageThrows(e)   == e = "null"

Note(kind, val) == [kind |-> kind, val |-> val]

\* tap({next, error}): the callback runs first, then the notification is
\* passed on; a callback that throws turns into an error notification.
tapStage(n) ==
  IF n.kind = "next"
    THEN IF StringifyThrows(n.val) THEN Note("error", "TypeError") ELSE n
    ELSE IF n.kind = "error"
      THEN IF MessageThrows(n.val) THEN Note("error", "TypeError") ELSE n
      ELSE n

\* catchError(selector): on an error the selector logs err.message and
\* returns throwError(() => err); a selector that throws errors with what it
\* threw.  Values and completion pass.
catchErrorStage(n) ==
  IF n.kind = "error"
    THEN IF MessageThrows(n.val) THEN Note("error", "TypeError") ELSE n
    ELSE n

\* What the subscriber of intercept(...) gets for a notification of the
\* route handler.
intercept(n) == catchErrorStage(tapStage(n))

InitLog ==
  /\ impl = "Middleware"
  /\ middlewares = <<>>
  /\ currentIndex = 0
  /\ stack = <<>>
  /\ heap = [o \in {} |-> {}]
  /\ trace = <<>>
  /\ runs = 0
  /\ pending = {}
  /\ eq = [phase |-> "idle"]
  /\ rx = [phase |-> "open", src |-> <<>>, out |-> <<>>]
  /\ cache = [cls |-> "idle"]

\* The route handler's observable sends n while the subscription is open; an
\* error or a completion, from the source or from an operator, closes it.
Send(n) ==
  /\ rx.phase = "open"
  /\ rx' = [phase |-> IF intercept(n).kind = "next" THEN "open" ELSE "closed",
            src   |-> Append(rx.src, n),
            out   |-> Append(rx.out, intercept(n))]
  /\ UNCHANGED <<impl, middlewares, currentIndex, stack, heap, trace, runs, pending, eq, cache>>

HandleNext(v) == Len(rx.src) < MaxEmits /\ Send(Note("next", v))
HandleError(e) == Send(Note("error", e))
HandleComplete == Send(Note("complete", "undefined"))

NextLog ==
  \/ \E v \in DataValues : HandleNext(v)
  \/ \E e \in ErrValues : HandleError(e)
  \/ HandleComplete

SpecLog == InitLog /\ [][NextLog]_vars

\* ------------------------------------------------- caching interceptors
\* TtlCacheInterceptor, LruCacheInterceptor and OptimizedCacheInterceptor.
\* Each keeps a Map from cache key to an entry; a JavaScript Map iterates in
\* insertion order, so the Map is a sequence of entries, oldest first.  The
\* sizes of the source (MAX_SIZE = 100, TTL = 300000 ms) are scaled down.
MAX_SIZE    == 2      \* this.MAX_SIZE: entries the cache may hold
TTL         == 2      \* this.TTL, in clock ticks
MaxRequests == 4      \* intercept calls on one interceptor
MaxTime     == 3      \* clock ticks

CacheClasses == {"Ttl", "Lru", "Optimized"}
\* `${request.method}:${request.url}` of the requests
CacheKeys    == {"GET:/a", "GET:/b", "GET:/c", "GET:/d"}

\* Map operations.
Has(map, key)    == \E i \in DOMAIN map : map[i].key = key
Get(map, key)    == map[CHOOSE i \in DOMAIN map : map[i].key = key]
Delete(map, key) == SelectSeq(map, LAMBDA e : e.key # key)
Set(map, entry)  ==
  IF Has(map, entry.key)
    THEN [i \in DOMAIN map |-> IF map[i].key = entry.key THEN entry ELSE map[i]]
    ELSE Append(map, entry)
OldestKey(map)   == map[1].key                 \* this.cache.keys().next().value

\* An entry; obs is the observable result$ (numbered by the next.handle()
\* call that made it).  LruCacheInterceptor stores the observable alone.
Entry(key, obs, expiresAt, accessCount) ==
  [key |-> key, obs |-> obs, expiresAt |-> expiresAt, accessCount |-> accessCount]

\* What the last intercept call did.
Answer(key, hit, obs, evicted, expired) ==
  [key |-> key, hit |-> hit, obs |-> obs, evicted |-> evicted, expired |-> expired]

\* The keys in the order of their last use (by a hit or by a miss).
Touch(used, key) == Append(SelectSeq(used, LAMBDA k : k # key), key)

InitCache ==
  /\ impl = "Middleware"
  /\ middlewares = <<>>
  /\ currentIndex = 0
  /\ stack = <<>>
  /\ heap = [o \in {} |-> {}]
  /\ trace = <<>>
  /\ runs = 0
  /\ pending = {}
  /\ eq = [phase |-> "idle"]
  /\ rx = [phase |-> "idle"]
  /\ \E c \in CacheClasses :
       cache = [cls |-> c, now |-> 0, map |-> <<>>, src |-> <<>>, reqs |-> 0,
                used |-> <<>>, last |-> Answer("none", FALSE, 0, "none", FALSE)]

Others == <<impl, middlewares, currentIndex, stack, heap, trace, runs, pending, eq, rx>>

\* The intercept call returns the cached observable.
CacheHit(map, key) ==
  cache' = [cache EXCEPT !.map = map, !.reqs = @ + 1, !.used = Touch(@, key),
                         !.last = Answer(key, TRUE, Get(map, key).obs, "none", FALSE)]

\* The intercept call makes result$ = next.handle().pipe(...), stores it in
\* the Map map and returns it; the framework subscribes to it.
CacheMiss(map, key, expiresAt, evicted, expired) ==
  LET obs == Len(cache.src) + 1
  IN cache' = [cache EXCEPT !.map = Set(map, Entry(key, obs, expiresAt, 0)),
                            !.src = Append(@, [key |-> key, st |-> "open"]),
                            !.reqs = @ + 1, !.used = Touch(@, key),
                            !.last = Answer(key, FALSE, obs, evicted, expired)]

\* The size check of the two LRU classes on a Map that held no entry for
\* the key: evicts the oldest entry when the Map is full.
\* A size check written `this.cache.size > this.MAX_SIZE`.
EvictOffByOne(map) == IF Len(map) > MAX_SIZE THEN Delete(map, OldestKey(map)) ELSE map
Evict(map) == IF Len(map) >= MAX_SIZE THEN Delete(map, OldestKey(map)) ELSE map
Evicted(map) == IF Len(map) >= MAX_SIZE THEN OldestKey(map) ELSE "none"

\* A TTL check written `cached.expiresAt >= now`.
FreshInclusive(e, now) == e.expiresAt >= now
\* cached.expiresAt > now
Fresh(e, now) == e.expiresAt > now

TtlIntercept(key) ==
  /\ cache.cls = "Ttl"
  /\ cache.reqs < MaxRequests
  /\ LET map == cache.map
         now == cache.now
     IN IF Has(map, key) /\ Fresh(Get(map, key), now)
          THEN CacheHit(map, key)
          ELSE IF Has(map, key)
            THEN CacheMiss(Delete(map, key), key, now + TTL, "none", TRUE)
            ELSE CacheMiss(map, key, now + TTL, "none", FALSE)
  /\ UNCHANGED Others

\* A hit that leaves the entry where it is.
MoveToEndForgotten(map, e) == map
\* this.cache.delete(cacheKey); this.cache.set(cacheKey, cached)
MoveToEnd(map, e) == Set(Delete(map, e.key), e)

LruIntercept(key) ==
  /\ cache.cls = "Lru"
  /\ cache.reqs < MaxRequests
  /\ LET map == cache.map
     IN IF Has(map, key)
          THEN CacheHit(MoveToEnd(map, Get(map, key)), key)
          ELSE CacheMiss(Evict(map), key, 0, Evicted(map), FALSE)
  /\ UNCHANGED Others

OptimizedIntercept(key) ==
  /\ cache.cls = "Optimized"
  /\ cache.reqs < MaxRequests
  /\ LET map == cache.map
         now == cache.now
     IN IF Has(map, key) /\ Fresh(Get(map, key), now)
          THEN CacheHit(MoveToEnd(map, [Get(map, key) EXCEPT !.accessCount = @ + 1]), key)
          ELSE LET m == IF Has(map, key) THEN Delete(map, key) ELSE map
               IN CacheMiss(Evict(m), key, now + TTL, Evicted(m), Has(map, key))
  /\ UNCHANGED Others

\* Date.now() moves on.  LruCacheInterceptor does not read the clock.
Tick ==
  /\ cache.cls \in {"Ttl", "Optimized"}
  /\ cache.now < MaxTime
  /\ cache' = [cache EXCEPT !.now = @ + 1]
  /\ UNCHANGED Others

\* @Cron cleanExpiredCache of TtlCacheInterceptor.
cleanExpiredCache ==
  /\ cache.cls = "Ttl"
  /\ \E i \in DOMAIN cache.map : cache.map[i].expiresAt <= cache.now
  /\ cache' = [cache EXCEPT !.map = SelectSeq(@, LAMBDA e : e.expiresAt > cache.now)]
  /\ UNCHANGED Others

\* The route handler's observable of next.handle() call j fails.  Only
\* OptimizedCacheInterceptor reacts to what becomes of the observable: the
\* catchError of result$ runs this.cache.delete(cacheKey) with the key of the
\* request that made it.
OnError(map, j) == Delete(map, cache.src[j].key)

SourceErrors(j) ==
  /\ cache.cls = "Optimized"
  /\ cache.src[j].st = "open"
  /\ cache' = [cache EXCEPT !.src[j].st = "error", !.map = OnError(@, j)]
  /\ UNCHANGED Others

\* The route handler's observable of next.handle() call j emits and completes.
SourceCompletes(j) ==
  /\ cache.cls = "Optimized"
  /\ cache.src[j].st = "open"
  /\ cache' = [cache EXCEPT !.src[j].st = "done"]
  /\ UNCHANGED Others

NextCache ==
  \/ \E key \in CacheKeys : TtlIntercept(key)
  \/ \E key \in CacheKeys : LruIntercept(key)
  \/ \E key \in CacheKeys : OptimizedIntercept(key)
  \/ Tick
  \/ cleanExpiredCache
  \/ \E j \in DOMAIN cache.src : SourceErrors(j)
  \/ \E j \in DOMAIN cache.src : SourceCompletes(j)

SpecCache == InitCache /\ [][NextCache]_vars

\* ------------------------------------------------- CacheInterceptor
\* CacheInterceptor of next-handle.ts: a Map from request.url to the data the
\* route handler emitted, filled by tap on every emission and never emptied.
Urls   == {"/a", "/b"}
\* What a route handler may emit; undefined is a value a Map can hold.
Bodies == {"body1", "body2", "undefined"}

InitUrlCache ==
  /\ impl = "Middleware"
  /\ middlewares = <<>>
  /\ currentIndex = 0
  /\ stack = <<>>
  /\ heap = [o \in {} |-> {}]
  /\ trace = <<>>
  /\ runs = 0
  /\ pending = {}
  /\ eq = [phase |-> "idle"]
  /\ rx = [phase |-> "idle"]
  /\ cache = [cls |-> "Cache", map |-> <<>>, src |-> <<>>, reqs |-> 0, emits |-> 0,
              last |-> [key |-> "none", hit |-> FALSE, out |-> <<>>]]

\* A test written `if (this.cache.get(url))`.
CachedTruthy(map, url) == Has(map, url) /\ Truthy(Get(map, url).val)
\* if (this.cache.has(url))
Cached(map, url) == Has(map, url)

\* intercept for a request of url.  On a hit it returns an observable that
\* sends this.cache.get(url) and completes, which the framework subscribes
\* to; on a miss it returns next.handle().pipe(tap(...)).
UrlIntercept(url) ==
  /\ cache.cls = "Cache"
  /\ cache.reqs < MaxRequests
  /\ IF Cached(cache.map, url)
       THEN cache' = [cache EXCEPT
                        !.reqs = @ + 1,
                        !.last = [key |-> url, hit |-> TRUE,
                                  out |-> <<Note("next", Get(cache.map, url).val),
                                            Note("complete", "undefined")>>]]
       ELSE cache' = [cache EXCEPT
                        !.reqs = @ + 1,
                        !.src = Append(@, [key |-> url, st |-> "open"]),
                        !.last = [key |-> url, hit |-> FALSE, out |-> <<>>]]
  /\ UNCHANGED Others

\* The observable of next.handle() call j emits v: tap runs
\* this.cache.set(url, data).
UrlSourceEmits(j, v) ==
  /\ cache.cls = "Cache"
  /\ cache.src[j].st = "open"
  /\ cache.emits < MaxEmits
  /\ cache' = [cache EXCEPT !.emits = @ + 1,
                            !.map = Set(@, [key |-> cache.src[j].key, val |-> v])]
  /\ UNCHANGED Others

\* The observable of next.handle() call j completes or fails: nothing is stored.
UrlSourceEnds(j, how) ==
  /\ cache.cls = "Cache"
  /\ cache.src[j].st = "open"
  /\ cache' = [cache EXCEPT !.src[j].st = how]
  /\ UNCHANGED Others

NextUrlCache ==
  \/ \E url \in Urls : UrlIntercept(url)
  \/ \E j \in DOMAIN cache.src : \E v \in Bodies : UrlSourceEmits(j, v)
  \/ \E j \in DOMAIN cache.src : \E how \in {"done", "error"} : UrlSourceEnds(j, how)

SpecUrlCache == InitUrlCache /\ [][NextUrlCache]_vars

\* ------------------------------------------------- RetryInterceptor
\* intercept(context, next) returns
\*   next.handle().pipe(retry({count: this.retryCount, delay: (error, n) =>
\*     error.status >= 500 ? timer(...) : throwError(() => error)}))
\* next.handle() is called once, when intercept runs; retry subscribes again
\* to the observable that call returned.
retryCount == 3       \* @Inject('RETRY_COUNT') private retryCount: number = 3
\* error.status of the errors the route handler's observable may fail with
Statuses == {404, 500}

InitRetry ==
  /\ impl = "Middleware"
  /\ middlewares = <<>>
  /\ currentIndex = 0
  /\ stack = <<>>
  /\ heap = [o \in {} |-> {}]
  /\ trace = <<>>
  /\ runs = 0
  /\ pending = {}
  /\ eq = [phase |-> "idle"]
  /\ cache = [cls |-> "idle"]
  /\ rx = [phase |-> "new", handle |-> 0, subs |-> 0, soFar |-> 0, fails |-> <<>>, out |-> <<>>]

\* The framework calls intercept and subscribes to what it returns: the one
\* call of next.handle(), and the first subscription to its observable.
RetryIntercept ==
  /\ rx.phase = "new"
  /\ rx' = [rx EXCEPT !.phase = "subscribed", !.handle = @ + 1, !.subs = @ + 1]
  /\ UNCHANGED <<impl, middlewares, currentIndex, stack, heap, trace, runs, pending, eq, cache>>

\* The observable emits a value: retry passes it on.
RetrySourceEmits(v) ==
  /\ rx.phase = "subscribed"
  /\ Len(rx.out) < MaxEmits
  /\ rx' = [rx EXCEPT !.out = Append(@, Note("next", v))]
  /\ UNCHANGED <<impl, middlewares, currentIndex, stack, heap, trace, runs, pending, eq, cache>>

RetrySourceCompletes ==
  /\ rx.phase = "subscribed"
  /\ rx' = [rx EXCEPT !.phase = "completed", !.out = Append(@, Note("complete", "undefined"))]
  /\ UNCHANGED <<impl, middlewares, currentIndex, stack, heap, trace, runs, pending, eq, cache>>

\* retry: `if (soFar++ < count)`
MayRetry(soFar) == soFar < retryCount

\* The observable fails with an error of the given status.  While retries
\* are left, delay(error, soFar) decides: a timer for status >= 500, after
\* which retry subscribes again, or an error that ends the subscription.
\* With no retry left the error goes to the subscriber.
RetrySourceFails(status) ==
  /\ rx.phase = "subscribed"
  /\ rx' = [rx EXCEPT
              !.fails = Append(@, status),
              !.soFar = @ + 1,
              !.phase = IF MayRetry(rx.soFar) /\ status >= 500 THEN "waiting" ELSE "failed",
              !.out   = IF MayRetry(rx.soFar) /\ status >= 500
                          THEN @ ELSE Append(@, Note("error", status))]
  /\ UNCHANGED <<impl, middlewares, currentIndex, stack, heap, trace, runs, pending, eq, cache>>

\* The timer of the delay fires: retry subscribes to the observable again.
RetryTimerFires ==
  /\ rx.phase = "waiting"
  /\ rx' = [rx EXCEPT !.phase = "subscribed", !.subs = @ + 1]
  /\ UNCHANGED <<impl, middlewares, currentIndex, stack, heap, trace, runs, pending, eq, cache>>

NextRetry ==
  \/ RetryIntercept
  \/ \E v \in Bodies : RetrySourceEmits(v)
  \/ RetrySourceCompletes
  \/ \E status \in Statuses : RetrySourceFails(status)
  \/ RetryTimerFires

SpecRetry == InitRetry /\ [][NextRetry]_vars

\* ------------------------------------------------- reading the trace
\* Length of the chain the last excute call ran on (use may append afterwards).
N       == IF trace = <<>> THEN Len(middlewares) ELSE trace[1].n
RunReq  == ReqOf(runs)                       \* the objects given to the last excute
RunRes  == ResOf(runs)
RunOver == runs > 0 /\ stack = <<>>          \* the last excute call has returned

IsInvocation(e) == e.kind \in {"mw", "route", "error"}
IsHandlerOp(e)  == e.kind \in {"call", "throw"}
Invocations == SelectSeq(trace, IsInvocation)   \* what the chain invoked, in order
HandlerOps  == SelectSeq(trace, IsHandlerOp)    \* what the handlers did to the chain, in order

At(kind)          == {i \in DOMAIN trace : trace[i].kind = kind}
AtPos(kind, p)    == {i \in At(kind) : trace[i].pos = p}
Activated         == {trace[i].pos : i \in At("mw")}

\* Handler p, if it ran, called its continuation exactly once, with no
\* argument, and did not throw.
AdvancesOnce(p) ==
  /\ Cardinality(AtPos("call", p)) = 1
  /\ \A i \in AtPos("call", p) : trace[i].val = "undefined"
  /\ AtPos("throw", p) = {}
AllAdvanceOnce == \A p \in Activated : AdvancesOnce(p)

\* The handlers' operations so far are: handlers 0..k-1 each called next()
\* once, and then handler k did the one operation `kind`.
OnlyThenAt(k, kind) ==
  /\ Len(HandlerOps) = k + 1
  /\ \A p \in 0..(k - 1) :
        /\ HandlerOps[p + 1].kind = "call"
        /\ HandlerOps[p + 1].pos = p
        /\ HandlerOps[p + 1].val = "undefined"
  /\ HandlerOps[k + 1].kind = kind
  /\ HandlerOps[k + 1].pos = k

\* ------------------------------------------------------------- claims

\* C1: when every handler calls its continuation once with no error, a
\* finished excute call has invoked handlers 0..N-1 in registration order,
\* each once, and then the terminal handler once.
C1_OrderedOnce ==
  (RunOver /\ AllAdvanceOnce) =>
     /\ Len(Invocations) = N + 1
     /\ \A p \in 0..(N - 1) :
           /\ Invocations[p + 1].kind = "mw"
           /\ Invocations[p + 1].pos = p
           /\ Invocations[p + 1].h = middlewares[p + 1]
     /\ Invocations[N + 1].kind = "route"

\* C2: when handler k (k < N-1) calls its continuation with an error value,
\* no handler after k is invoked and the error handler is invoked exactly
\* once, with that value and the run's req and res.
C2_ErrorArgShortCircuits ==
  \A k \in 0..(N - 2) :
    (OnlyThenAt(k, "call") /\ Truthy(HandlerOps[k + 1].val)) =>
       /\ \A i \in At("mw") : trace[i].pos <= k
       /\ Cardinality(At("error")) = 1
       /\ \A i \in At("error") :
             /\ trace[i].val = HandlerOps[k + 1].val
             /\ trace[i].req = RunReq
             /\ trace[i].res = RunRes

\* C3: when handler k throws instead of calling its continuation, the error
\* handler is invoked exactly once with the thrown value and the run's req
\* and res, no handler after k is invoked and the terminal handler is not
\* invoked.
C3_ThrowShortCircuits ==
  \A k \in 0..(N - 1) :
    OnlyThenAt(k, "throw") =>
       /\ \A i \in At("mw") : trace[i].pos <= k
       /\ At("route") = {}
       /\ Cardinality(At("error")) = 1
       /\ \A i \in At("error") :
             /\ trace[i].val = HandlerOps[k + 1].val
             /\ trace[i].req = RunReq
             /\ trace[i].res = RunRes

\* C4: a second (or later) excute call on the same instance is independent
\* of the earlier ones: with handlers that each advance once, every handler
\* is invoked again, once, with the objects of this call only, and the
\* objects of this call carry no write made during an earlier call.
C4_RunsIndependent ==
  (runs >= 2 /\ RunOver /\ AllAdvanceOnce) =>
     /\ \A p \in 0..(N - 1) :
           /\ Cardinality(AtPos("mw", p)) = 1
           /\ \A i \in AtPos("mw", p) : trace[i].req = RunReq /\ trace[i].res = RunRes
     /\ \A m \in heap[RunReq] \cup heap[RunRes] : m.run = runs

\* C5: every handler, the terminal handler and the error handler receive
\* the very req and res objects that were passed to excute.
C5_SameContext ==
  \A i \in DOMAIN trace :
    IsInvocation(trace[i]) => (trace[i].req = RunReq /\ trace[i].res = RunRes)

\* C5 witness: a handler was reached through next() called with no argument,
\* and both the terminal handler and the error handler have been invoked.
C5_Witness ==
  /\ \E i \in At("call") :
        /\ trace[i].val = "undefined"
        /\ i + 1 \in At("mw")
  /\ At("route") # {}
  /\ At("error") # {}

\* C6: what a handler wrote on req is seen by everything the chain invokes
\* afterwards in the same run: the following handlers, the terminal handler
\* and the error handler.
C6_MutationVisible ==
  \A i \in At("mut") : \A j \in DOMAIN trace :
    (j > i /\ IsInvocation(trace[j])) =>
       [run |-> runs, pos |-> trace[i].pos] \in trace[j].seen

\* C6 witness: handler 0 wrote on req and then called next(); handler 1, the
\* terminal handler and the error handler were invoked after that.
C6_Witness ==
  \E i \in AtPos("mut", 0) :
    /\ i + 1 \in AtPos("call", 0)
    /\ i + 2 \in AtPos("mw", 1)
    /\ \E j \in At("route") : j > i
    /\ \E j \in At("error") : j > i

\* C7: within one excute call no registered handler is invoked twice,
\* whatever the handlers do.
C7_AtMostOnce ==
  \A p \in 0..(N - 1) : Cardinality(AtPos("mw", p)) <= 1

\* C7 witness: a handler has called its continuation twice, another has
\* thrown, and the whole chain has been invoked.
C7_Witness ==
  /\ \E p \in 0..(N - 1) : Cardinality(AtPos("call", p)) >= 2
  /\ At("throw") # {}
  /\ N = MaxHandlers
  /\ \A p \in 0..(N - 1) : AtPos("mw", p) # {}

\* C8: when every handler that ran called its continuation one or more
\* times, never with an error, and none threw, a finished excute call has
\* invoked the terminal handler exactly once.
C8_TerminalOnce ==
  ( /\ RunOver
    /\ At("throw") = {}
    /\ \A i \in At("call") : ~Truthy(trace[i].val)
    /\ \A p \in Activated : AtPos("call", p) # {} ) =>
     Cardinality(At("route")) = 1

\* C9: after the error handler has been invoked, the run invokes no
\* handler and no terminal handler any more.
C9_ErrorIsFinal ==
  \A i \in At("error") : \A j \in DOMAIN trace :
    j > i => trace[j].kind \notin {"mw", "route"}

\* C10: one excute call never invokes both the terminal handler and the
\* error handler.
C10_OneOutcome ==
  ~(At("route") # {} /\ At("error") # {})

\* C11: every value a handler throws, and every error value a handler passes
\* to its continuation, is handed to the error handler, once: the error
\* handler is invoked right then with that value, and never otherwise.
IsRaise(e) == e.kind = "throw" \/ (e.kind = "call" /\ Truthy(e.val))
Raises == {i \in DOMAIN trace : IsRaise(trace[i])}
C11_NeverSwallowed ==
  /\ \A i \in Raises :
        /\ i + 1 \in At("error")
        /\ trace[i + 1].val = trace[i].val
  /\ Cardinality(At("error")) = Cardinality(Raises)

\* C12: the continuation given to the handler at position p resumes the chain
\* at position p + 1 each time it is called with no error: it invokes handler
\* p + 1, or the terminal handler when p is the last position, with the run's
\* req and res.
C12_BoundToPosition ==
  \A i \in At("call") :
    ~Truthy(trace[i].val) =>
       /\ i + 1 \in DOMAIN trace
       /\ trace[i + 1].req = RunReq /\ trace[i + 1].res = RunRes
       /\ IF trace[i].pos + 1 < N
            THEN trace[i + 1].kind = "mw" /\ trace[i + 1].pos = trace[i].pos + 1
            ELSE trace[i + 1].kind = "route"

\* C13: when a continuation given to the handler at position p is called
\* from a timer callback with no error, the chain resumes at position p + 1
\* with the req and res the continuation captured: it invokes handler p + 1,
\* or the terminal handler when p is the last position, whatever happened
\* on the instance in between.
C13_DeferredResumesAtNext ==
  \A i \in At("fire") :
    ~Truthy(trace[i].val) =>
       /\ i + 1 \in DOMAIN trace
       /\ trace[i + 1].req = trace[i].req /\ trace[i + 1].res = trace[i].res
       /\ IF trace[i].pos + 1 < trace[i].n
            THEN trace[i + 1].kind = "mw" /\ trace[i + 1].pos = trace[i].pos + 1
            ELSE trace[i + 1].kind = "route"

\* C14: when the handlers before k each called next() once and handler k has
\* returned without calling its continuation and without throwing, the run
\* has invoked no handler after k, no terminal handler and no error handler.
SilentAt(k) ==
  /\ Len(HandlerOps) = k
  /\ \A p \in 0..(k - 1) :
        /\ HandlerOps[p + 1].kind = "call"
        /\ HandlerOps[p + 1].pos = p
        /\ HandlerOps[p + 1].val = "undefined"
  /\ AtPos("return", k) # {}
ActedAll == \A p \in Activated : AtPos("call", p) \cup AtPos("throw", p) # {}
C15_RunTerminates ==
  /\ [](Len(stack) <= N)
  /\ [](runs > 0 => <>(RunOver /\ (ActedAll => At("route") \cup At("error") # {})))

\* C15 witness: a finished run of a chain of two in which both handlers ran,
\* each called its continuation or threw, and one of them threw.
C15_Witness ==
  /\ RunOver
  /\ N = 2
  /\ Activated = {0, 1}
  /\ ActedAll
  /\ At("throw") # {}

\* C16: a step that changes the chain is a use: it appends one handler at the
\* end, keeps the entries that were there in their order, and leaves the
\* index alone; a step of excute or of next() (one that changes runs or the
\* trace) leaves the chain as it is.
C16_UseOnlyAppends ==
  [][ middlewares' # middlewares =>
        /\ \E h \in Handlers : middlewares' = Append(middlewares, h)
        /\ currentIndex' = currentIndex
        /\ runs' = runs /\ trace' = trace /\ stack' = stack ]_vars

\* C16 witness: a handler was appended after a run on a shorter chain.
C16_Witness ==
  /\ trace # <<>>
  /\ Len(middlewares) = MaxHandlers
  /\ N < Len(middlewares)

\* C17: the subscriber of LoggingInterceptor.intercept gets exactly what the
\* route handler's observable sent: every value unchanged, and on failure
\* that same error and nothing else.
C17_LoggingTransparent ==
  rx.phase # "idle" => rx.out = rx.src

\* C18: run once from a fresh instance on the same chain of handlers, the two
\* classes invoke the same handlers, terminal handler and error handler, with
\* the same values, in the same order.
C18_SameInvocations ==
  eq.phase = "done" => eq.outM = eq.outC

\* C19: when every handler does its pre-work, calls next() once and then
\* does its post-work, a finished run has entered handlers 0..N-1 in
\* registration order, then invoked the terminal handler, then left the
\* handlers in reverse order N-1..0.
IsNesting(e) == e.kind \in {"mw", "route", "return"}
Nesting == SelectSeq(trace, IsNesting)
C19_PreTerminalPostReversed ==
  (RunOver /\ AllAdvanceOnce) =>
     /\ Len(Nesting) = 2 * N + 1
     /\ \A p \in 0..(N - 1) :
           /\ Nesting[p + 1].kind = "mw" /\ Nesting[p + 1].pos = p
           /\ Nesting[2 * N + 1 - p].kind = "return" /\ Nesting[2 * N + 1 - p].pos = p
     /\ Nesting[N + 1].kind = "route"

\* C20: excute on a chain with no handler invokes the terminal handler once,
\* with the req and res it was given, and nothing else.
C20_EmptyChain ==
  (runs > 0 /\ N = 0) =>
     /\ Len(trace) = 1
     /\ trace[1].kind = "route"
     /\ trace[1].req = RunReq /\ trace[1].res = RunRes

\* C20 witness: a second excute call on a chain that is still empty.
C20_Witness ==
  /\ runs >= 2
  /\ Len(middlewares) = 0
  /\ trace # <<>>

\* C21: a handler's throw is caught by the next() that called it and goes no
\* further: the activations of the handlers before it stay as they are (their
\* continuation call returns and their code after it runs), the error handler
\* is invoked at most once for it, right then and with the thrown value; and
\* a handler that returns while the stack unwinds invokes nothing.
Added == {i \in DOMAIN trace' : i > Len(trace)}
StepOf(kind) ==
  /\ runs' = runs
  /\ Len(trace') > Len(trace)
  /\ trace'[Len(trace) + 1].kind = kind
C21_HandledAtBoundary ==
  [][ /\ StepOf("throw") =>
           /\ Len(stack') >= Len(stack) - 1
           /\ \A j \in 1..(Len(stack) - 1) : stack'[j] = stack[j]
           /\ Cardinality({i \in Added : trace'[i].kind = "error"}) <= 1
           /\ Truthy(trace'[Len(trace) + 1].val) =>
                 /\ Len(trace') = Len(trace) + 2
                 /\ trace'[Len(trace) + 2].kind = "error"
                 /\ trace'[Len(trace) + 2].val = trace'[Len(trace) + 1].val
      /\ StepOf("return") =>
           /\ Len(trace') = Len(trace) + 1
           /\ Len(stack') = Len(stack) - 1
           /\ \A j \in 1..(Len(stack) - 1) : stack'[j] = stack[j] ]_vars

\* C21 witness: handler 1 threw an error, the error handler was invoked right
\* then, after that handler 0 went on and returned; the error handler was
\* invoked once in all.
C21_Witness ==
  /\ RunOver
  /\ \E i \in AtPos("throw", 1) :
        /\ Truthy(trace[i].val)
        /\ i + 1 \in At("error")
        /\ \E j \in AtPos("return", 0) : j > i
  /\ Cardinality(At("error")) = 1

\* C22: with this.next.bind(this) as the continuation, the handler invoked by
\* a next() without arguments gets undefined for req and res, not the run's
\* objects; and when that handler reads its context first thing, in a run
\* whose handlers call their continuation at most once and throw nothing of
\* their own, the terminal handler is never invoked.
NoArgCalls == {i \in At("call") : trace[i].val = "undefined" /\ i + 1 \in At("mw")}
ThrowsOnlyFromReads ==
  \A i \in At("throw") : i - 1 \in At("read") /\ ReadThrows(trace[i].req)
NoArgOutcome ==
  IF currentIndex >= Len(middlewares)
    THEN [ev    |-> Event("route", -1, "undefined", Top.req, Top.res),
          stack |-> stack,
          index |-> currentIndex]
    ELSE [ev    |-> Event("mw", currentIndex, "undefined", Top.req, Top.res),
          stack |-> Append(stack, Frame(currentIndex, Top.req, Top.res)),
          index |-> currentIndex + 1]
C23_FalsyArgIsNoArg ==
  [][ (StepOf("call") /\ trace'[Len(trace) + 1].val \in Falsy) =>
         /\ Len(trace') = Len(trace) + 2
         /\ trace'[Len(trace) + 2] = NoArgOutcome.ev
         /\ stack' = NoArgOutcome.stack
         /\ currentIndex' = NoArgOutcome.index
         /\ heap' = heap ]_vars

\* C23 witness: in class Middleware a handler called next(null) and the next
\* handler was invoked, and a next(null) invoked the terminal handler; the
\* error handler was not invoked.
C23_Witness ==
  /\ impl = "Middleware"
  /\ \E i \in At("call") : trace[i].val = "null" /\ i + 1 \in At("mw")
  /\ \E i \in At("call") : trace[i].val = "null" /\ i + 1 \in At("route")
  /\ At("error") = {}

\* C24: the index is always between 0 and the number of registered handlers,
\* and a step that is not an excute call never lowers it.
C24_IndexInRange ==
  /\ [](0 <= currentIndex /\ currentIndex <= Len(middlewares))
  /\ [][runs' = runs => currentIndex' >= currentIndex]_vars

\* C24 witness: class Middleware in its second run, after excute has put the
\* index back to 0, with the index at the end of a full chain again.
C24_Witness ==
  /\ impl = "Middleware"
  /\ runs >= 2
  /\ Len(middlewares) = MaxHandlers
  /\ currentIndex = Len(middlewares)
  /\ At("throw") # {}

\* ----------------------------------------- claims on the caching interceptors
KeysOf(map) == [i \in DOMAIN map |-> map[i].key]
IsRequest == cache.cls \in CacheClasses /\ cache'.reqs = cache.reqs + 1
Min(a, b) == IF a <= b THEN a ELSE b

\* C25: the Map of LruCacheInterceptor and of OptimizedCacheInterceptor never
\* holds more than MAX_SIZE entries.
C25_SizeBounded ==
  cache.cls \in {"Lru", "Optimized"} => Len(cache.map) <= MAX_SIZE

\* C25 witness: OptimizedCacheInterceptor has just evicted an entry to store
\* a new one in a full Map.
C25_Witness ==
  /\ cache.cls = "Optimized"
  /\ cache.last.evicted # "none"
  /\ Len(cache.map) = MAX_SIZE

\* C26: in LruCacheInterceptor the Map holds the keys used last, as many as
\* fit, ordered by their last use: the key of the last request is the newest
\* and a miss on a full Map has evicted the least recently used key.
C26_LruOrder ==
  cache.cls = "Lru" =>
     /\ Len(cache.map) = Min(MAX_SIZE, Len(cache.used))
     /\ KeysOf(cache.map) =
          SubSeq(cache.used, Len(cache.used) - Len(cache.map) + 1, Len(cache.used))

\* C26 witness: a miss on a full Map evicted a key that was inserted after
\* the oldest-inserted key still cached, which a hit had saved.
C26_Witness ==
  /\ cache.cls = "Lru"
  /\ cache.last.evicted # "none"
  /\ \E j \in DOMAIN cache.src :
        /\ cache.src[j].key = cache.last.evicted
        /\ j > cache.map[1].obs

\* C27: TtlCacheInterceptor and OptimizedCacheInterceptor answer a request
\* from the cache exactly when the key's entry has expiresAt > now, with that
\* entry's observable and without calling next.handle(); otherwise the old
\* entry goes, next.handle() is called once and the key's entry is the new
\* observable with expiresAt = now + TTL.
C27_NeverServesExpired ==
  [][ (IsRequest /\ cache.cls \in {"Ttl", "Optimized"}) =>
        LET key == cache'.last.key
            had == Has(cache.map, key)
        IN /\ cache'.last.hit <=> (had /\ Get(cache.map, key).expiresAt > cache.now)
           /\ cache'.last.hit =>
                 /\ cache'.last.obs = Get(cache.map, key).obs
                 /\ cache'.src = cache.src
           /\ ~cache'.last.hit =>
                 /\ Len(cache'.src) = Len(cache.src) + 1
                 /\ cache'.last.obs = Len(cache'.src)
                 /\ Get(cache'.map, key) = Entry(key, Len(cache'.src), cache.now + TTL, 0) ]_vars

\* C27 witness: the last request found an expired entry and replaced it.
C27_Witness ==
  /\ cache.cls \in {"Ttl", "Optimized"}
  /\ cache.last.expired
  /\ Get(cache.map, cache.last.key).expiresAt = cache.now + TTL

\* C28: in OptimizedCacheInterceptor, when the observable of next.handle()
\* call j fails, the Map holds no entry with that observable afterwards (a
\* request for its key is a miss unless a later request stored a new entry),
\* and every entry made by another (later) request is still there.
C28_ErrorNotCached ==
  [][ \A j \in DOMAIN cache.src :
        (cache.cls = "Optimized" /\ cache.src[j].st = "open" /\ cache'.src[j].st = "error") =>
           /\ \A i \in DOMAIN cache'.map : cache'.map[i].obs # j
           /\ \A i \in DOMAIN cache.map :
                 cache.map[i].obs # j => \E k \in DOMAIN cache'.map : cache'.map[k] = cache.map[i] ]_vars

\* C29: once CacheInterceptor holds a value for a URL it holds one for ever,
\* and a request for that URL is answered with the stored value followed by
\* completion, without a call of next.handle().
C29_HitSkipsHandler ==
  [][ cache.cls = "Cache" =>
        /\ \A u \in Urls : Has(cache.map, u) => Has(cache'.map, u)
        /\ \A u \in Urls :
              (cache'.reqs = cache.reqs + 1 /\ cache'.last.key = u /\ Has(cache.map, u)) =>
                 /\ cache'.last.out = <<Note("next", Get(cache.map, u).val),
                                        Note("complete", "undefined")>>
                 /\ cache'.src = cache.src
                 /\ cache'.map = cache.map ]_vars

\* C29 witness: two requests for a URL both missed before anything was
\* stored, both route handlers have emitted, the stored value is undefined,
\* and a later request for the URL was answered from the cache.
C29_Witness ==
  /\ cache.cls = "Cache"
  /\ cache.last.hit
  /\ cache.last.out[1].val = "undefined"
  /\ Cardinality({j \in DOMAIN cache.src : cache.src[j].key = cache.last.key}) = 2
  /\ cache.emits >= 2

\* C30: when the route handler's observable fails with status 500 on every
\* attempt, the subscriber gets the error after next.handle() has been
\* called 1 + retryCount = 4 times.
AlwaysFailed500 ==
  /\ rx.phase = "failed"
  /\ rx.out = <<Note("error", 500)>>
  /\ \A i \in DOMAIN rx.fails : rx.fails[i] = 500
C30_FourHandleCalls ==
  AlwaysFailed500 => rx.handle = 1 + retryCount
====
